---------------------------- MODULE Spec2Model ----------------------------
(***************************************************************************)
(* Model of the SCG prototype trading bot: the persisted risk state        *)
(* (strategy.py load_risk_state / save_risk_state), the drawdown guardrail *)
(* and the trading loop (main.py), the SMA crossover detector              *)
(* (strategy.py) and the dashboard run that shares the risk-state file     *)
(* (streamlit_app.py).                                                     *)
(*                                                                         *)
(* Numbers.  Equities and closes are integers.  The code works on Python   *)
(* floats; for integer inputs of this size the float subtraction is exact  *)
(* and the float division is correctly rounded, so every comparison the    *)
(* code makes (dd_pct >= 0.05, fast <= slow, ...) has the same outcome as  *)
(* the comparison of the exact rationals, which the model computes by      *)
(* cross-multiplication.  A rational is a pair <<num, den>> with den > 0.  *)
(* An optional value (Python None / a number) is <<>> or <<x>>.            *)
(***************************************************************************)
EXTENDS Integers, Sequences, FiniteSets, TLC

(***************************************************************************)
(* Program constants (main.py, Trading Configuration).                     *)
(***************************************************************************)
QTY == 1000

FAST == 10

SLOW == 20

DRY_RUN == FALSE

\* MAX_DD_PCT = 0.05, the rational 1/20
MAX_DD_PCT == <<1, 20>>

(***************************************************************************)
(* Bounds of the model.                                                    *)
(***************************************************************************)
\* longest bar series the price feed hands to the loop
MaxLen == 22

\* account equities the brokerage may report: zero, a 5% and a 2% drop
\* from 100, and 100 itself
Equities == {0, 95, 98, 100}

\* closing prices of the bars the price feed may return
Closes == {1, 2}

\* position quantities the brokerage may hold for the symbol
Positions == {-1, 0, 500}

\* longest series the detector is followed on, bar by bar
MaxBars == 7

\* closing prices of the bars of that series
DetCloses == {1, 2, 3}

\* the (fast, slow) windows the detector is called with there: small
\* windows, so that crossovers happen within MaxBars bars
Windows == {<<2, 3>>, <<2, 4>>, <<3, 5>>}

(***************************************************************************)
(* Optional values and rationals.                                          *)
(***************************************************************************)
None == <<>>

Some(x) == <<x>>

IsNone(o) == o = <<>>

Val(o) == o[1]

Abs(x) == IF x < 0 THEN 0 - x ELSE x

RECURSIVE Gcd(_, _)
Gcd(a, b) == IF b = 0 THEN a ELSE Gcd(b, a % b)

\* a / b for integers, b # 0, in lowest terms with a positive denominator:
\* equal rationals are equal pairs, as equal floats are equal
Frac(a, b) ==
    LET g == Gcd(Abs(a), Abs(b))
    IN  IF b < 0 THEN <<(0 - a) \div g, (0 - b) \div g>> ELSE <<a \div g, b \div g>>

FracLt(p, q) == p[1] * q[2] < q[1] * p[2]

FracGeq(p, q) == p[1] * q[2] >= q[1] * p[2]

FracEq(p, q) == p[1] * q[2] = q[1] * p[2]

\* max(0.0, x)
FracMax0(p) == IF p[1] < 0 THEN <<0, 1>> ELSE p

(***************************************************************************)
(* The persisted risk state.  The file is absent (NoFile) or holds one     *)
(* JSON object; while a save is under way it holds none (PartialFile).     *)
(***************************************************************************)
NoFile == <<>>

DefaultState ==
    [peak_equity |-> None, auto_paused |-> FALSE,
     last_equity |-> None, user_paused |-> FALSE]

\* the file exists and holds no complete JSON object: save_risk_state has
\* opened it with "w", which empties it, and json.dump has not finished
PartialFile == <<"open", "w">>

\* mutant: the default has a peak of 0 where the code has None
load_risk_state_zero_peak(f) ==
    IF f = NoFile \/ f = PartialFile
    THEN [DefaultState EXCEPT !.peak_equity = Some(0)]
    ELSE f[1]

\* load_risk_state: the object in the file; the default when there is no
\* file, and when json.load raises (except Exception: pass)
load_risk_state(f) ==
    IF f = NoFile \/ f = PartialFile THEN DefaultState ELSE f[1]

\* save_risk_state: the file now holds the object, whole
save_risk_state(state) == <<state>>

(***************************************************************************)
(* The drawdown guardrail, main.py update_drawdown_and_guardrail.          *)
(***************************************************************************)
\* mutant: the peak follows the latest equity
NewPeakLatest(peak, eq) == eq

\* if peak is None or eq > peak: peak = eq
NewPeak(peak, eq) == IF IsNone(peak) \/ eq > Val(peak) THEN eq ELSE Val(peak)

\* mutant: the drawdown as a percentage, not as a fraction
DrawdownPercent(peak, eq) ==
    IF peak = 0 THEN <<0, 1>> ELSE FracMax0(Frac((peak - eq) * 100, peak))

\* dd_pct = 0.0 if peak == 0 else max(0.0, (peak - eq) / peak)
Drawdown(peak, eq) ==
    IF peak = 0 THEN <<0, 1>> ELSE FracMax0(Frac(peak - eq, peak))

\* mutant: no latch, the flag follows the current drawdown
BreakerNoLatch(prior, dd) == FracGeq(dd, MAX_DD_PCT)

\* auto_paused = state.get("auto_paused", False); if dd_pct >= MAX_DD_PCT: True
Breaker(prior, dd) == IF FracGeq(dd, MAX_DD_PCT) THEN TRUE ELSE prior

\* mutant: the drawdown is measured from the last equity, not from the peak
update_from_last_equity(state, eq) ==
    LET peak == NewPeak(state.peak_equity, eq)
        last == IF IsNone(state.last_equity) THEN eq ELSE Val(state.last_equity)
        dd_pct == Drawdown(last, eq)
        auto_paused == Breaker(state.auto_paused, dd_pct)
    IN  [state |-> [state EXCEPT !.peak_equity = Some(peak),
                                 !.last_equity = Some(eq),
                                 !.auto_paused = auto_paused],
         auto_paused |-> auto_paused, dd_pct |-> dd_pct, peak |-> peak]

\* The body of update_drawdown_and_guardrail between the load and the save:
\* the dict that is saved and the tuple that is returned.
update_drawdown_and_guardrail(state, eq) ==
    LET peak == NewPeak(state.peak_equity, eq)
        dd_pct == Drawdown(peak, eq)
        auto_paused == Breaker(state.auto_paused, dd_pct)
    IN  [state |-> [state EXCEPT !.peak_equity = Some(peak),
                                 !.last_equity = Some(eq),
                                 !.auto_paused = auto_paused],
         auto_paused |-> auto_paused, dd_pct |-> dd_pct, peak |-> peak]

\* mutant: the clear also forgets the peak
clear_auto_pause_and_peak(state) ==
    [state EXCEPT !.auto_paused = FALSE, !.peak_equity = None]

\* clear_auto_pause between its load and its save: state["auto_paused"] = False
clear_auto_pause(state) == [state EXCEPT !.auto_paused = FALSE]

\* is_user_paused: bool(state.get("user_paused", False)) of a fresh load
is_user_paused(f) == load_risk_state(f).user_paused

(***************************************************************************)
(* The SMA crossover detector, strategy.py.  A series is a sequence of     *)
(* closes.  rolling(w).mean() at position i is NaN (None) while fewer than *)
(* w bars end at i, and the mean sum/w of the last w closes otherwise.     *)
(***************************************************************************)
RECURSIVE SumRange(_, _, _)
SumRange(closes, lo, hi) ==
    IF lo > hi THEN 0 ELSE closes[hi] + SumRange(closes, lo, hi - 1)

\* df["close"].rolling(w).mean().iloc[i-1], i in 1..Len(closes)
RollingMean(closes, w, i) ==
    IF i < w THEN None ELSE Some(Frac(SumRange(closes, i - w + 1, i), w))

\* mutant: the previous pair must be strictly below
NanLeqStrict(x, y) == ~IsNone(x) /\ ~IsNone(y) /\ FracLt(Val(x), Val(y))

\* mutant: the current pair may be equal
NanGtOrEqual(x, y) == ~IsNone(x) /\ ~IsNone(y) /\ FracGeq(Val(x), Val(y))

\* float comparisons: every comparison with NaN is False
NanLeq(x, y) == ~IsNone(x) /\ ~IsNone(y) /\ ~FracLt(Val(y), Val(x))

NanGeq(x, y) == ~IsNone(x) /\ ~IsNone(y) /\ FracGeq(Val(x), Val(y))

NanLt(x, y) == ~IsNone(x) /\ ~IsNone(y) /\ FracLt(Val(x), Val(y))

NanGt(x, y) == ~IsNone(x) /\ ~IsNone(y) /\ FracLt(Val(y), Val(x))

\* mutant: the test for a missing slow average is gone
sma_cross_no_nan_check(closes, fast, slow) ==
    LET n == Len(closes)
        prev_fast == RollingMean(closes, fast, n - 1)
        prev_slow == RollingMean(closes, slow, n - 1)
        curr_fast == RollingMean(closes, fast, n)
        curr_slow == RollingMean(closes, slow, n)
    IN  IF n < 2 THEN "IndexError"
        ELSE IF NanLeq(prev_fast, prev_slow) /\ NanGt(curr_fast, curr_slow)
             THEN "buy"
        ELSE IF NanGeq(prev_fast, prev_slow) /\ NanLt(curr_fast, curr_slow)
             THEN "sell"
        ELSE "hold"

\* sma_cross_signal: "buy", "sell", "hold", "None" (Python None), or
\* "IndexError" when .iloc[-1] or .iloc[-2] is out of bounds
sma_cross_signal(closes, fast, slow) ==
    LET n == Len(closes)
        prev_fast == RollingMean(closes, fast, n - 1)
        prev_slow == RollingMean(closes, slow, n - 1)
        curr_fast == RollingMean(closes, fast, n)
        curr_slow == RollingMean(closes, slow, n)
    IN  IF n = 0 THEN "IndexError"
        ELSE IF IsNone(curr_slow) THEN "None"
        ELSE IF n < 2 THEN "IndexError"
        ELSE IF NanLeq(prev_fast, prev_slow) /\ NanGt(curr_fast, curr_slow)
             THEN "buy"
        ELSE IF NanGeq(prev_fast, prev_slow) /\ NanLt(curr_fast, curr_slow)
             THEN "sell"
        ELSE "hold"

\* abs(curr_fast - curr_slow) / max(abs(curr_slow), 1e-9) for defined means
\* cf = <<sf, f>>, cs = <<ss, s>>.  The sums are integers and the windows are
\* far below 10^9, so abs(curr_slow) < 1e-9 exactly when the slow sum is 0.
Confidence(cf, cs) ==
    LET diff == Abs(cf[1] * cs[2] - cs[1] * cf[2])
    IN  IF cs[1] = 0
        THEN Frac(diff * 1000000000, cf[2] * cs[2])
        ELSE Frac(diff, cf[2] * Abs(cs[1]))

\* describe_sma_signal: (reason, confidence); the reason "IndexError" stands
\* for the exception of an out-of-bounds .iloc.  A NaN curr_fast
\* (fast > slow) makes the confidence NaN: None.
describe_sma_signal(closes, fast, slow) ==
    LET n == Len(closes)
        prev_fast == RollingMean(closes, fast, n - 1)
        prev_slow == RollingMean(closes, slow, n - 1)
        curr_fast == RollingMean(closes, fast, n)
        curr_slow == RollingMean(closes, slow, n)
        confidence == IF IsNone(curr_fast) THEN None
                      ELSE Some(Confidence(Val(curr_fast), Val(curr_slow)))
        regime == IF NanGt(curr_fast, curr_slow) THEN "above"
                  ELSE IF NanLt(curr_fast, curr_slow) THEN "below"
                  ELSE "equal"
    IN  IF n = 0 THEN [reason |-> "IndexError", confidence |-> None]
        ELSE IF IsNone(curr_slow)
             THEN [reason |-> "Not enough data", confidence |-> Some(<<0, 1>>)]
        ELSE IF n < 2 THEN [reason |-> "IndexError", confidence |-> None]
        ELSE IF NanLeq(prev_fast, prev_slow) /\ NanGt(curr_fast, curr_slow)
             THEN [reason |-> "BUY crossed above", confidence |-> confidence]
        ELSE IF NanGeq(prev_fast, prev_slow) /\ NanLt(curr_fast, curr_slow)
             THEN [reason |-> "SELL crossed below", confidence |-> confidence]
        ELSE [reason |-> "HOLD is " \o regime \o "; no crossover",
              confidence |-> confidence]

\* latest_signal_reason on compute_smas(df, fast, slow): (signal, reason,
\* confidence).  Its signal is "none" both for missing data and for no
\* crossover; "IndexError" stands for the exception of an out-of-bounds
\* .iloc.  The columns SMA{fast} and SMA{slow} are the rolling means of
\* close; with fast = slow they are one column.
latest_signal_reason(closes, fast, slow) ==
    LET n == Len(closes)
        prev_fast == RollingMean(closes, fast, n - 1)
        prev_slow == RollingMean(closes, slow, n - 1)
        curr_fast == RollingMean(closes, fast, n)
        curr_slow == RollingMean(closes, slow, n)
        confidence == IF IsNone(curr_fast) THEN None
                      ELSE Some(Confidence(Val(curr_fast), Val(curr_slow)))
        regime == IF NanGt(curr_fast, curr_slow) THEN "above"
                  ELSE IF NanLt(curr_fast, curr_slow) THEN "below"
                  ELSE "equal"
    IN  IF n = 0
        THEN [signal |-> "IndexError", reason |-> "IndexError",
              confidence |-> None]
        ELSE IF IsNone(curr_slow)
             THEN [signal |-> "none", reason |-> "Not enough data",
                   confidence |-> Some(<<0, 1>>)]
        ELSE IF n < 2
             THEN [signal |-> "IndexError", reason |-> "IndexError",
                   confidence |-> None]
        ELSE IF NanLeq(prev_fast, prev_slow) /\ NanGt(curr_fast, curr_slow)
             THEN [signal |-> "buy", reason |-> "BUY crossed above",
                   confidence |-> confidence]
        ELSE IF NanGeq(prev_fast, prev_slow) /\ NanLt(curr_fast, curr_slow)
             THEN [signal |-> "sell", reason |-> "SELL crossed below",
                   confidence |-> confidence]
        ELSE [signal |-> "none",
              reason |-> "HOLD is " \o regime \o "; no crossover",
              confidence |-> confidence]

\* main.py:135-169, the body of backtest_strategy's loop from the bar p
\* (p = i + 1 for the 0-based i of the code) with the simulated position:
\* the records it appends, each with its bar and "BUY" or "SELL".  The test
\* at line 136 compares a float with None and is never true.
RECURSIVE BacktestFrom(_, _, _, _, _)
BacktestFrom(closes, fast, slow, p, position) ==
    IF p > Len(closes) THEN <<>>
    ELSE LET prev_fast == RollingMean(closes, fast, p - 1)
             prev_slow == RollingMean(closes, slow, p - 1)
             curr_fast == RollingMean(closes, fast, p)
             curr_slow == RollingMean(closes, slow, p)
         IN  IF /\ NanLeq(prev_fast, prev_slow) /\ NanGt(curr_fast, curr_slow)
                /\ position <= 0
             THEN <<[bar |-> p, signal |-> "BUY"]>>
                  \o BacktestFrom(closes, fast, slow, p + 1, 1)
             ELSE IF /\ NanGeq(prev_fast, prev_slow)
                     /\ NanLt(curr_fast, curr_slow)
                     /\ position >= 0
             THEN <<[bar |-> p, signal |-> "SELL"]>>
                  \o BacktestFrom(closes, fast, slow, p + 1, -1)
             ELSE BacktestFrom(closes, fast, slow, p + 1, position)

\* main.py:132-169: signals = [], position = 0, for i in range(SLOW, len(df))
backtest_strategy(closes, fast, slow) ==
    BacktestFrom(closes, fast, slow, slow + 1, 0)

(***************************************************************************)
(* Inputs of the trading loop.  The price feed returns a series of 0 to    *)
(* MaxLen bars; the family below (n bars, all closing at a except the last *)
(* at b) reaches every branch of the detector for the windows FAST/SLOW.   *)
(***************************************************************************)
Bars(n, a, b) == [i \in 1..n |-> IF i = n THEN b ELSE a]

LoopSeries == {Bars(n, a, b) : n \in 0..MaxLen, a \in Closes, b \in Closes}

\* what lines 213 and 217 of the loop compute from one fetched series
SignalAndReason(closes) ==
    LET d == describe_sma_signal(closes, FAST, SLOW)
    IN  [signal |-> sma_cross_signal(closes, FAST, SLOW),
         reason |-> d.reason, confidence |-> d.confidence]

FetchOutcomes == {SignalAndReason(closes) : closes \in LoopSeries}

(***************************************************************************)
(* State.                                                                  *)
(*   file       risk_state.json: <<>> (absent) or <<object>>               *)
(*   orders     the orders the current cycle of the loop has submitted     *)
(*   tradeLog   the rows the current cycle has appended to trade_log.csv   *)
(*              (the file is append-only and the loop never reads it, so   *)
(*              the rows of earlier cycles are not kept)                   *)
(*   loop       the trading loop: its position pc and its locals           *)
(*   dash       one run of the dashboard script: position, locals, button  *)
(*   oper       a call of clear_auto_pause() by the operator               *)
(*   lastObs    history, kept by SpecLoop only: of the loop's last observe *)
(*              the dict it loaded, the equity, the returned tuple and the *)
(*              file it left; the largest equity observed so far and       *)
(*              whether any observe so far persisted auto_paused = true    *)
(*   dry_run    the DRY_RUN line of the Trading Configuration, read by the *)
(*              loop at line 240; the repository sets it to False          *)
(*   det        the detector evaluated on a growing series (SpecDetector): *)
(*              the windows, the closes so far, the signal returned at     *)
(*              each latest position, the latest reason and confidence;    *)
(*              what the dashboard computed from the closes so far, if it  *)
(*              has run since the last bar; the signals backtest_strategy  *)
(*              recorded on the closes so far, if it has run since         *)
(***************************************************************************)
VARIABLES file, orders, tradeLog, loop, dash, oper, lastObs, dry_run, det

vars == <<file, orders, tradeLog, loop, dash, oper, lastObs, dry_run, det>>

LoopStart ==
    [pc |-> "start", acct_equity |-> None, state |-> None,
     auto_paused |-> FALSE, dd_pct |-> None, peak |-> None,
     signal |-> "", reason |-> "", confidence |-> None,
     user_paused |-> FALSE, held |-> None, qty_now |-> None,
     should_buy |-> FALSE, should_sell |-> FALSE, outcome |-> ""]

DashIdle == [pc |-> "idle", state |-> None, button |-> ""]

OperIdle == [pc |-> "idle", state |-> None]

\* the detector before the first bar, for the windows fast and slow
DetStart(fast, slow) ==
    [fast |-> fast, slow |-> slow, closes |-> <<>>, signals |-> <<>>,
     reason |-> "", confidence |-> None, latest |-> None,
     backtest |-> None]

\* a fresh installation: no risk-state file, nothing running yet
InitFresh ==
    /\ file = NoFile
    /\ orders = <<>>
    /\ tradeLog = <<>>
    /\ loop = LoopStart
    /\ dash = DashIdle
    /\ oper = OperIdle
    /\ lastObs = None

\* the configuration as the repository sets it
Init ==
    /\ InitFresh
    /\ dry_run = DRY_RUN
    /\ det = DetStart(FAST, SLOW)

(***************************************************************************)
(* The trading loop, main.py loop(): one action per step of the body that  *)
(* reads or writes something another process can see.                      *)
(***************************************************************************)
\* mutant: the auto-pause check is missing
PauseBranchUserOnly(user_paused, auto_paused) ==
    IF user_paused THEN "user pause" ELSE ""

\* mutant: the user-pause check is missing
PauseBranchAutoOnly(user_paused, auto_paused) ==
    IF auto_paused THEN "guardrail" ELSE ""

\* lines 221-227: which of the two pause branches is taken, if any
PauseBranch(user_paused, auto_paused) ==
    IF user_paused THEN "user pause"
    ELSE IF auto_paused THEN "guardrail"
    ELSE ""

\* mutant: a buy signal buys whatever the position
should_buy_any(signal, qty_now) == signal = "buy"

\* line 231
should_buy(signal, qty_now) == signal = "buy" /\ qty_now <= 0

\* mutant: a sell signal sells whatever the position
should_sell_any(signal, qty_now) == signal = "sell"

\* line 232
should_sell(signal, qty_now) == signal = "sell" /\ qty_now > 0

\* line 239
Action(sb, ss) == IF sb THEN "BUY" ELSE IF ss THEN "SELL" ELSE "HOLD"

\* mutant: the dry-run flag is not consulted
ResolveIgnoresDryRun(signal, qty_now) ==
    LET sb == should_buy(signal, qty_now)
        ss == should_sell(signal, qty_now)
        action == Action(sb, ss)
    IN  IF signal = "None" THEN [outcome |-> "no signal", place |-> FALSE]
        ELSE IF action = "HOLD"
             THEN [outcome |-> action, place |-> FALSE]
        ELSE [outcome |-> action, place |-> sb \/ ss]

\* mutant: the check for a missing signal is gone
ResolveNoneAsHold(signal, qty_now) ==
    LET sb == should_buy(signal, qty_now)
        ss == should_sell(signal, qty_now)
        action == Action(sb, ss)
    IN  IF dry_run \/ action = "HOLD"
        THEN [outcome |-> action, place |-> FALSE]
        ELSE [outcome |-> action, place |-> sb \/ ss]

\* lines 234-248: how the cycle goes on once the position is known:
\* "no signal", "HOLD" (also printed for a dry run), or the order to place
Resolve(signal, qty_now) ==
    LET sb == should_buy(signal, qty_now)
        ss == should_sell(signal, qty_now)
        action == Action(sb, ss)
    IN  IF signal = "None" THEN [outcome |-> "no signal", place |-> FALSE]
        ELSE IF dry_run \/ action = "HOLD"
             THEN [outcome |-> action, place |-> FALSE]
        ELSE [outcome |-> action, place |-> sb \/ ss]

\* the except clauses: the exception ends the cycle, its locals are not read
\* again, and the loop sleeps before the next cycle
Raise(what) == loop' = [LoopStart EXCEPT !.pc = "sleep", !.outcome = what]

\* lines 199 and 42: acct = api.get_account(), which may raise, and the
\* load at the start of update_drawdown_and_guardrail(acct.equity)
GetAccountAndLoad ==
    /\ loop.pc = "start"
    /\ \/ \E e \in Equities :
            loop' = [loop EXCEPT !.pc = "observe_save",
                                 !.acct_equity = Some(e),
                                 !.state = Some(load_risk_state(file))]
       \/ Raise("APIError")
    /\ UNCHANGED <<file, orders, tradeLog, dash, oper, lastObs, dry_run, det>>

\* lines 43-60: the computation, the save and the return
ObserveSaveStep ==
    /\ loop.pc = "observe_save"
    /\ LET r == update_drawdown_and_guardrail(Val(loop.state), Val(loop.acct_equity))
       IN  /\ file' = save_risk_state(r.state)
           /\ loop' = [loop EXCEPT !.pc = "signal", !.state = None,
                                   !.auto_paused = r.auto_paused,
                                   !.dd_pct = Some(r.dd_pct),
                                   !.peak = Some(r.peak)]
    /\ UNCHANGED <<orders, tradeLog, dash, oper, dry_run, det>>

ObserveSave == ObserveSaveStep /\ UNCHANGED lastObs

\* the same step, recording the call in the history variable
ObserveSaveRecorded ==
    /\ ObserveSaveStep
    /\ lastObs' = Some([prior |-> Val(loop.state),
                        equity |-> Val(loop.acct_equity),
                        auto_paused |-> loop'.auto_paused,
                        dd_pct |-> Val(loop'.dd_pct), peak |-> Val(loop'.peak),
                        file |-> file',
                        max_equity |->
                            IF IsNone(lastObs)
                               \/ Val(loop.acct_equity) > Val(lastObs).max_equity
                            THEN Val(loop.acct_equity)
                            ELSE Val(lastObs).max_equity,
                        ever_paused |->
                            loop'.auto_paused
                            \/ (~IsNone(lastObs) /\ Val(lastObs).ever_paused)])

\* lines 206-218: fetch the bars, compute the signal and its description.
\* The equity, the drawdown and the peak were printed and are not read again.
FetchSignal ==
    /\ loop.pc = "signal"
    /\ \/ \E o \in FetchOutcomes :
            IF o.signal = "IndexError"
            THEN Raise("Exception")
            ELSE loop' = [loop EXCEPT !.pc = "pause_check",
                                      !.acct_equity = None,
                                      !.dd_pct = None, !.peak = None,
                                      !.signal = o.signal, !.reason = o.reason,
                                      !.confidence = o.confidence]
       \/ Raise("APIError")
    /\ UNCHANGED <<file, orders, tradeLog, dash, oper, lastObs, dry_run, det>>

\* lines 221-227: is_user_paused() loads the file again; then the auto-pause
PauseCheck ==
    /\ loop.pc = "pause_check"
    /\ LET up == is_user_paused(file)
           branch == PauseBranch(up, loop.auto_paused)
       IN  loop' = [loop EXCEPT !.user_paused = up,
                                !.outcome = branch,
                                !.pc = IF branch = "" THEN "position" ELSE "continue"]
    /\ UNCHANGED <<file, orders, tradeLog, dash, oper, lastObs, dry_run, det>>

\* lines 73-79 and 230-242: the brokerage holds some position for SYMBOL;
\* position_qty returns its quantity, or 0 when get_position raises; then
\* the decision
PositionAndResolve ==
    /\ loop.pc = "position"
    /\ \E held \in Positions : \E q \in {held, 0} :
         LET r == Resolve(loop.signal, q)
         IN  loop' = [loop EXCEPT !.held = Some(held), !.qty_now = Some(q),
                                  !.should_buy = should_buy(loop.signal, q),
                                  !.should_sell = should_sell(loop.signal, q),
                                  !.outcome = r.outcome,
                                  !.pc = IF r.place THEN "place" ELSE "continue"]
    /\ UNCHANGED <<file, orders, tradeLog, dash, oper, lastObs, dry_run, det>>

\* lines 245-248 and 83: api.submit_order; the brokerage accepts it or raises
SubmitOrder ==
    /\ loop.pc = "place"
    /\ \/ /\ orders' = Append(orders,
                 IF loop.should_buy
                 THEN [side |-> "buy", qty |-> QTY]
                 ELSE [side |-> "sell", qty |-> Val(loop.qty_now)])
          /\ loop' = [loop EXCEPT !.pc = "log"]
       \/ /\ Raise("APIError")
          /\ UNCHANGED orders
    /\ UNCHANGED <<file, tradeLog, dash, oper, lastObs, dry_run, det>>

\* lines 84-99: get_order, then log_trade appends the row; either may raise
GetOrderAndLog ==
    /\ loop.pc = "log"
    /\ \/ /\ tradeLog' = Append(tradeLog,
                 [side |-> orders[Len(orders)].side,
                  qty |-> orders[Len(orders)].qty,
                  reason |-> loop.reason, confidence |-> loop.confidence])
          /\ loop' = [loop EXCEPT !.pc = "sleep"]
       \/ /\ Raise("APIError")
          /\ UNCHANGED tradeLog
    /\ UNCHANGED <<file, orders, dash, oper, lastObs, dry_run, det>>

\* a continue statement: the next cycle starts at once
Continue ==
    /\ loop.pc = "continue"
    /\ loop' = LoopStart
    /\ UNCHANGED <<file, orders, tradeLog, dash, oper, lastObs, dry_run, det>>

\* lines 262-263: time.sleep(INTERVAL_SEC), then the next cycle
Sleep ==
    /\ loop.pc = "sleep"
    /\ loop' = LoopStart
    /\ orders' = <<>>
    /\ tradeLog' = <<>>
    /\ UNCHANGED <<file, dash, oper, lastObs, dry_run, det>>

LoopRest ==
    \/ GetAccountAndLoad \/ FetchSignal \/ PauseCheck
    \/ PositionAndResolve \/ SubmitOrder \/ GetOrderAndLog \/ Continue \/ Sleep

LoopNext == ObserveSave \/ LoopRest

\* the trading loop alone, from a fresh installation, with its history
LoopAloneNext == ObserveSaveRecorded \/ LoopRest

SpecLoop == Init /\ [][LoopAloneNext]_vars

(***************************************************************************)
(* The save in two steps, strategy.py save_risk_state: open(file, "w")     *)
(* empties the file, json.dump then writes the object.  Ctrl+C (or a kill) *)
(* between the two ends the loop (main.py:254-256); the operator starts    *)
(* the program again and the loop begins a new cycle with the file as it   *)
(* was left.                                                               *)
(***************************************************************************)
\* line 54, reached from main.py:59
OpenForWrite ==
    /\ loop.pc = "observe_save"
    /\ file # PartialFile
    /\ file' = PartialFile
    /\ UNCHANGED <<orders, tradeLog, loop, dash, oper, lastObs, dry_run, det>>

\* the loop is interrupted inside update_drawdown_and_guardrail and started
\* again
InterruptAndRestart ==
    /\ loop.pc = "observe_save"
    /\ loop' = LoopStart
    /\ UNCHANGED <<file, orders, tradeLog, dash, oper, lastObs, dry_run, det>>

SpecInterrupted ==
    Init /\ [][LoopAloneNext \/ OpenForWrite \/ InterruptAndRestart]_vars

(***************************************************************************)
(* The save fails: open (strategy.py:54) or the write and close of         *)
(* json.dump (line 55) raise OSError.  The exception leaves                *)
(* update_drawdown_and_guardrail at main.py:59 and loop()'s                *)
(* `except Exception` (lines 258-260) catches it.  When open raised, the   *)
(* file was not touched; when the write raised, open had emptied it.       *)
(***************************************************************************)
SaveRaises ==
    /\ loop.pc = "observe_save"
    /\ Raise("Exception")
    /\ UNCHANGED <<file, orders, tradeLog, dash, oper, lastObs, dry_run, det>>

SpecSaveFails == Init /\ [][LoopAloneNext \/ OpenForWrite \/ SaveRaises]_vars

(***************************************************************************)
(* One run of the dashboard script, streamlit_app.py.  Streamlit runs the  *)
(* script top to bottom for each interaction; at most one button is True   *)
(* in a run.  One operator acts at a time: a dashboard run and a call of   *)
(* clear_auto_pause() do not overlap.                                      *)
(***************************************************************************)
Buttons == {"", "Start", "Stop", "Clear Auto-Pause"}

\* mutant: Start also resets the auto-pause
SetUserPausedAndResume(state, button) ==
    [state EXCEPT !.user_paused = (button = "Stop"),
                  !.auto_paused = IF button = "Start" THEN FALSE ELSE @]

\* lines 145-150: the dict after the Start or the Stop branch
SetUserPaused(state, button) == [state EXCEPT !.user_paused = (button = "Stop")]

\* mutant: the refresh records the equity and leaves the peak alone
DashRefreshLastOnly(state, equity) ==
    [state EXCEPT !.last_equity = Some(equity)]

\* lines 160-164: maintain peak equity
DashRefresh(state, equity) ==
    LET peak == IF IsNone(state.peak_equity) \/ equity > Val(state.peak_equity)
                THEN equity ELSE Val(state.peak_equity)
    IN  [state EXCEPT !.peak_equity = Some(peak), !.last_equity = Some(equity)]

\* lines 333-334: the dict the Clear Auto-Pause button saves
DashClear(state) == [state EXCEPT !.auto_paused = FALSE]

\* line 143: state = load_risk_state(RISK_STATE_FILE)
DashLoad ==
    /\ dash.pc = "idle"
    /\ oper.pc = "idle"
    /\ \E b \in Buttons :
         dash' = [pc |-> IF b \in {"Start", "Stop"} THEN "start_stop" ELSE "account",
                  state |-> Some(load_risk_state(file)), button |-> b]
    /\ UNCHANGED <<file, orders, tradeLog, loop, oper, lastObs, dry_run, det>>

\* lines 145-150: Start or Stop sets user_paused in the loaded dict and saves it
DashStartStop ==
    /\ dash.pc = "start_stop"
    /\ LET st == SetUserPaused(Val(dash.state), dash.button)
       IN  /\ file' = save_risk_state(st)
           /\ dash' = [dash EXCEPT !.pc = "account", !.state = Some(st)]
    /\ UNCHANGED <<orders, tradeLog, loop, oper, lastObs, dry_run, det>>

\* lines 156-165: the account snapshot and the save of the same dict; when
\* get_account raises, the except clause of the script shows the demo page
DashAccount ==
    /\ dash.pc = "account"
    /\ \/ \E e \in Equities :
            /\ file' = save_risk_state(DashRefresh(Val(dash.state), e))
            /\ dash' = IF dash.button = "Clear Auto-Pause"
                       THEN [dash EXCEPT !.pc = "clear_load", !.state = None]
                       ELSE DashIdle
       \/ /\ dash' = DashIdle
          /\ UNCHANGED file
    /\ UNCHANGED <<orders, tradeLog, loop, oper, lastObs, dry_run, det>>

\* line 333, reached unless a call between lines 181 and 331 raised
DashClearLoad ==
    /\ dash.pc = "clear_load"
    /\ \/ dash' = [dash EXCEPT !.pc = "clear_save",
                               !.state = Some(load_risk_state(file))]
       \/ dash' = DashIdle
    /\ UNCHANGED <<file, orders, tradeLog, loop, oper, lastObs, dry_run, det>>

\* lines 334-335
DashClearSave ==
    /\ dash.pc = "clear_save"
    /\ file' = save_risk_state(DashClear(Val(dash.state)))
    /\ dash' = DashIdle
    /\ UNCHANGED <<orders, tradeLog, loop, oper, lastObs, dry_run, det>>

DashNext ==
    DashLoad \/ DashStartStop \/ DashAccount \/ DashClearLoad \/ DashClearSave

(***************************************************************************)
(* The operator calls main.py clear_auto_pause().                          *)
(***************************************************************************)
\* line 64
ClearLoad ==
    /\ oper.pc = "idle"
    /\ dash.pc = "idle"
    /\ oper' = [pc |-> "save", state |-> Some(load_risk_state(file))]
    /\ UNCHANGED <<file, orders, tradeLog, loop, dash, lastObs, dry_run, det>>

\* lines 65-66
ClearSave ==
    /\ oper.pc = "save"
    /\ file' = save_risk_state(clear_auto_pause(Val(oper.state)))
    /\ oper' = OperIdle
    /\ UNCHANGED <<orders, tradeLog, loop, dash, lastObs, dry_run, det>>

OperNext == ClearLoad \/ ClearSave

Next == LoopNext \/ DashNext \/ OperNext

Spec == Init /\ [][Next]_vars

(***************************************************************************)
(* The same program with the DRY_RUN line of the configuration set either  *)
(* way before the start.                                                   *)
(***************************************************************************)
InitConfigured ==
    /\ InitFresh
    /\ dry_run \in BOOLEAN
    /\ det = DetStart(FAST, SLOW)

SpecConfigured == InitConfigured /\ [][Next]_vars

(***************************************************************************)
(* The same three processes with their operations run one after another:   *)
(* at most one of them is between the load and the last save of an         *)
(* operation.                                                              *)
(***************************************************************************)
Sequential ==
    /\ loop.pc = "observe_save" => dash.pc = "idle" /\ oper.pc = "idle"
    /\ dash.pc # "idle" => oper.pc = "idle"

SequentialNext == Next /\ Sequential'

SpecSequential == Init /\ [][SequentialNext]_vars

\* the loop, with the history of its observe calls, and the operator's
\* clear_auto_pause(), one after the other
LoopAndClearNext == (LoopAloneNext \/ OperNext) /\ Sequential'

SpecLoopAndClear == Init /\ [][LoopAndClearNext]_vars

(***************************************************************************)
(* The detector on a growing series: each new bar is appended and          *)
(* sma_cross_signal and describe_sma_signal are evaluated at the new       *)
(* latest position, as one cycle of the loop does with the bars it gets.   *)
(***************************************************************************)
InitDetector ==
    /\ InitFresh
    /\ dry_run = DRY_RUN
    /\ \E w \in Windows : det = DetStart(w[1], w[2])

DetectorTick ==
    /\ Len(det.closes) < MaxBars
    /\ \E c \in DetCloses :
         LET closes == Append(det.closes, c)
             d == describe_sma_signal(closes, det.fast, det.slow)
         IN  det' = [det EXCEPT
                 !.closes = closes,
                 !.signals = Append(@, sma_cross_signal(closes, det.fast, det.slow)),
                 !.reason = d.reason,
                 !.confidence = d.confidence,
                 !.latest = None,
                 !.backtest = None]
    /\ UNCHANGED <<file, orders, tradeLog, loop, dash, oper, lastObs, dry_run>>

SpecDetector == InitDetector /\ [][DetectorTick]_vars

(***************************************************************************)
(* The dashboard's signal next to the loop's.  The sidebar takes any       *)
(* Fast SMA in 2..200 and any Slow SMA in 3..400 (streamlit_app.py:        *)
(* 135-136); when slow <= fast it shows a warning (lines 137-138) and the  *)
(* script goes on to compute the signal with the pair (lines 191-193).     *)
(***************************************************************************)
SidebarWindows == {<<2, 3>>, <<2, 4>>, <<3, 3>>, <<4, 3>>}

InitSidebar ==
    /\ InitFresh
    /\ dry_run = DRY_RUN
    /\ \E w \in SidebarWindows : det = DetStart(w[1], w[2])

\* lines 191-193 on the series the feed returns now
DashboardSignal ==
    /\ IsNone(det.latest)
    /\ det' = [det EXCEPT !.latest =
                   Some(latest_signal_reason(det.closes, det.fast, det.slow))]
    /\ UNCHANGED <<file, orders, tradeLog, loop, dash, oper, lastObs, dry_run>>

SpecDashboardSignal == InitSidebar /\ [][DetectorTick \/ DashboardSignal]_vars

(***************************************************************************)
(* The backtest on the bars the detector has seen: backtest_strategy is    *)
(* run on the series so far, with the windows of the detector.             *)
(***************************************************************************)
BacktestRun ==
    /\ IsNone(det.backtest)
    /\ det' = [det EXCEPT !.backtest =
                   Some(backtest_strategy(det.closes, det.fast, det.slow))]
    /\ UNCHANGED <<file, orders, tradeLog, loop, dash, oper, lastObs, dry_run>>

SpecBacktest == InitDetector /\ [][DetectorTick \/ BacktestRun]_vars

\* main.py:229-248 run over the same bars from a flat position, every order
\* filled in full before the next bar: at the bar p the loop has the signal
\* signals[p] and the position qty_now; a buy adds QTY, a sell sells qty_now
RECURSIVE LiveFrom(_, _, _)
LiveFrom(signals, p, qty_now) ==
    IF p > Len(signals) THEN <<>>
    ELSE LET sb == should_buy(signals[p], qty_now)
             ss == should_sell(signals[p], qty_now)
         IN  IF sb THEN <<[bar |-> p, signal |-> Action(sb, ss)]>>
                        \o LiveFrom(signals, p + 1, qty_now + QTY)
             ELSE IF ss THEN <<[bar |-> p, signal |-> Action(sb, ss)]>>
                             \o LiveFrom(signals, p + 1, 0)
             ELSE LiveFrom(signals, p + 1, qty_now)

(***************************************************************************)
(* Properties.                                                             *)
(***************************************************************************)
Persisted == load_risk_state(file)

PersistedNext == load_risk_state(file')

\* the step that is the save and return of the loop's observe
ObserveReturns == loop.pc = "observe_save" /\ loop'.pc = "signal"

\* the loop is in place_and_log, or about to call it
Placing(l) == l.pc \in {"place", "log"}

\* the step submits an order
Submits == Len(orders') > Len(orders)

\* C1 (SpecLoop): the latch.  In a run of the trading loop alone, once an
\* observe has persisted auto_paused = true, the persisted flag stays true
\* and every later observe returns auto_paused = true, whatever the equity.
C1_Latch ==
    [][(~IsNone(lastObs) /\ Val(lastObs).ever_paused)
        => /\ PersistedNext.auto_paused
           /\ ObserveReturns => loop'.auto_paused]_vars

\* an observe found the latch set, saw the equity above the old peak, and
\* returned auto_paused = true
C1_Witness ==
    /\ ~IsNone(lastObs)
    /\ loop.pc = "signal"
    /\ Val(lastObs).prior.auto_paused
    /\ Val(lastObs).equity > Val(Val(lastObs).prior.peak_equity)
    /\ loop.auto_paused
    /\ Persisted.auto_paused

\* C2 (Spec): from the return of an observe with auto_paused = true to the
\* end of that cycle no order is submitted and place_and_log is not reached.
C2_AutoPauseBlocksOrders ==
    [][loop.auto_paused => ~Submits /\ ~Placing(loop')]_vars

\* a cycle ended in the guardrail branch with a buy signal
C2_Witness ==
    /\ loop.pc = "continue"
    /\ loop.auto_paused
    /\ loop.signal = "buy"
    /\ loop.outcome = "guardrail"

\* C3 (Spec): a cycle that reads user_paused = true ends in the user-pause
\* branch, whatever the auto-pause and the signal are, without reading the
\* position, and submits no order.
C3_UserPauseBlocksOrders ==
    [][/\ (loop.pc = "pause_check" /\ loop' # loop /\ Persisted.user_paused)
            => /\ loop'.user_paused
               /\ loop'.pc = "continue"
       /\ loop'.user_paused
            => /\ loop'.outcome = "user pause"
               /\ IsNone(loop'.qty_now)
               /\ ~Placing(loop')
       /\ loop.user_paused => ~Submits]_vars

\* a cycle with a sell signal and the latch set ended in the user-pause branch
C3_Witness ==
    /\ loop.pc = "continue"
    /\ loop.user_paused
    /\ loop.auto_paused
    /\ loop.signal = "sell"
    /\ loop.outcome = "user pause"

\* C4 (Spec), as claimed: the persisted auto_paused goes from true to false
\* only in the save of clear_auto_pause or of the Clear Auto-Pause button.
C4_OnlyClearResetsLatch ==
    [][(Persisted.auto_paused /\ ~PersistedNext.auto_paused)
        => \/ (oper.pc = "save" /\ oper'.pc = "idle")
           \/ (dash.pc = "clear_save" /\ dash'.pc = "idle")]_vars

\* C5 (Spec), as claimed: a save by the loop's observe or by
\* clear_auto_pause never changes the persisted user_paused.
C5_UserPauseNotLost ==
    [][(ObserveReturns \/ (oper.pc = "save" /\ oper'.pc = "idle"))
        => PersistedNext.user_paused = Persisted.user_paused]_vars

\* C6 (SpecLoop): over the observes of the loop the persisted peak never
\* decreases, and the peak each observe returns and persists is the largest
\* equity observed so far.
C6_PeakMonotone ==
    [][/\ ~IsNone(Persisted.peak_equity)
            => /\ ~IsNone(PersistedNext.peak_equity)
               /\ Val(PersistedNext.peak_equity) >= Val(Persisted.peak_equity)
       /\ ObserveReturns
            => /\ loop'.peak = Some(Val(lastObs').max_equity)
               /\ PersistedNext.peak_equity = loop'.peak]_vars

\* an observe of an equity below the recorded peak has returned that peak
C6_Witness ==
    /\ ~IsNone(lastObs)
    /\ loop.pc = "signal"
    /\ Val(lastObs).equity < Val(lastObs).max_equity
    /\ Val(lastObs).equity > 0
    /\ loop.peak = Some(Val(lastObs).max_equity)

\* C7 (Spec): what an observe returns and persists, from the dict st it
\* loaded and the equity e.  The peak is e when st has no peak or e exceeds
\* it, and the old peak otherwise; the drawdown is 0 for a peak of 0 and
\* max(0, (peak - e) / peak) otherwise; auto_paused is the loaded flag or
\* drawdown >= MAX_DD_PCT (5/100); the file holds st with the peak, e as the
\* last equity, and that flag.  With no peak loaded it returns (false, 0, e),
\* and a new peak leaves the flag as loaded.
C7_ObserveResult ==
    [][ObserveReturns =>
        LET st == Val(loop.state)
            e == Val(loop.acct_equity)
            fresh == IsNone(st.peak_equity)
            rises == fresh \/ e > Val(st.peak_equity)
            pk == Val(loop'.peak)
            dd == Val(loop'.dd_pct)
            breach == dd[1] * 100 >= 5 * dd[2]
        IN  /\ rises => pk = e
            /\ ~rises => pk = Val(st.peak_equity)
            /\ dd[2] > 0
            /\ pk = 0 => dd[1] = 0
            /\ (pk # 0 /\ (pk - e) * pk >= 0) => dd[1] * pk = (pk - e) * dd[2]
            /\ (pk # 0 /\ (pk - e) * pk < 0) => dd[1] = 0
            /\ loop'.auto_paused = (st.auto_paused \/ breach)
            /\ PersistedNext = [peak_equity |-> Some(pk), last_equity |-> Some(e),
                                auto_paused |-> loop'.auto_paused,
                                user_paused |-> st.user_paused]
            /\ fresh => (~loop'.auto_paused /\ dd[1] = 0 /\ pk = e)
            /\ rises => loop'.auto_paused = st.auto_paused]_vars

\* an observe has just tripped the latch at a drawdown of exactly 5%
C7_Witness ==
    /\ loop.pc = "signal"
    /\ loop.auto_paused
    /\ loop.dd_pct = Some(<<1, 20>>)
    /\ loop.peak = Some(100)
    /\ loop.acct_equity = Some(95)

\* C8 (SpecLoop): an observe of the same equity as the observe before it
\* returns the same (auto_paused, dd_pct, peak) and leaves the file as the
\* first one left it.
C8_Idempotent ==
    [][(ObserveReturns /\ ~IsNone(lastObs)
        /\ Val(lastObs).equity = Val(loop.acct_equity))
        => /\ loop'.auto_paused = Val(lastObs).auto_paused
           /\ loop'.dd_pct = Some(Val(lastObs).dd_pct)
           /\ loop'.peak = Some(Val(lastObs).peak)
           /\ file' = Val(lastObs).file]_vars

\* the second of two observes of the same equity, the first of which
\* tripped the latch
C8_Witness ==
    /\ ~IsNone(lastObs)
    /\ loop.pc = "signal"
    /\ Val(lastObs).prior.last_equity = Some(Val(lastObs).equity)
    /\ Val(lastObs).prior.auto_paused
    /\ Val(lastObs).equity < Val(lastObs).peak

\* C9 (Spec): once the position q is read in a cycle with a signal, the
\* outcome is BUY exactly for a buy signal with q <= 0, SELL exactly for a
\* sell signal with q > 0 and HOLD in every other case; should_buy and
\* should_sell are not both true; an order is placed exactly for BUY and SELL.
C9_ResolvedAction ==
    [][(loop.pc = "position" /\ loop' # loop /\ loop.signal # "None") =>
        LET q == Val(loop'.qty_now)
            buys == loop.signal = "buy" /\ q <= 0
            sells == loop.signal = "sell" /\ q > 0
        IN  /\ loop'.outcome \in {"BUY", "SELL", "HOLD"}
            /\ loop'.outcome = "BUY" <=> buys
            /\ loop'.outcome = "SELL" <=> sells
            /\ loop'.should_buy = buys
            /\ loop'.should_sell = sells
            /\ ~(loop'.should_buy /\ loop'.should_sell)
            /\ loop'.pc = "place" <=> (buys \/ sells)]_vars

\* a buy signal with 500 shares held resolved to HOLD
C9_Witness ==
    /\ loop.pc = "continue"
    /\ loop.signal = "buy"
    /\ loop.qty_now = Some(500)
    /\ loop.outcome = "HOLD"

\* C10 (Spec): in a cycle whose signal is None the loop never reaches
\* place_and_log and submits no order; when it reads the position, whatever
\* the quantity, neither should_buy nor should_sell is true and the cycle
\* ends with "no signal".
C10_UndeterminedHolds ==
    [][loop.signal = "None"
        => /\ ~Submits
           /\ ~Placing(loop')
           /\ (loop.pc = "position" /\ loop' # loop)
                => /\ loop'.outcome = "no signal"
                   /\ loop'.pc = "continue"
                   /\ ~loop'.should_buy
                   /\ ~loop'.should_sell]_vars

\* a cycle without a signal, with 500 shares held, ended with "no signal"
C10_Witness ==
    /\ loop.pc = "continue"
    /\ loop.signal = "None"
    /\ loop.reason = "Not enough data"
    /\ loop.qty_now = Some(500)
    /\ loop.outcome = "no signal"

\* C11 (SpecConfigured): with DRY_RUN set, no step of the loop submits an
\* order or enters place_and_log, whatever action is resolved; the cycle has
\* by then run its observe, which saved the risk state.
C11_DryRunSubmitsNothing ==
    [][dry_run
        => /\ ~Submits
           /\ ~Placing(loop')
           /\ ObserveReturns
                => /\ file' # NoFile
                   /\ PersistedNext.last_equity = loop.acct_equity
           /\ (loop.pc = "position" /\ loop' # loop)
                => /\ loop'.pc = "continue"
                   /\ file # NoFile]_vars

\* a dry run resolved BUY from a buy signal with no position, and went on
\* to the next cycle with the observed equity on file and no order
C11_Witness ==
    /\ dry_run
    /\ loop.pc = "continue"
    /\ loop.outcome = "BUY"
    /\ loop.should_buy
    /\ orders = <<>>
    /\ file # NoFile

\* C12 (Spec): every order the loop submits has a quantity > 0.  A buy
\* carries QTY; a sell carries the quantity position_qty returned in this
\* cycle, which is the holding the brokerage reported, so the sell flattens
\* the position and does not go short.
C12_OrderQuantities ==
    [][Submits
        => LET o == orders'[Len(orders')]
           IN  /\ o.qty > 0
               /\ o.side \in {"buy", "sell"}
               /\ o.side = "buy" => (o.qty = QTY /\ loop.signal = "buy")
               /\ o.side = "sell"
                    => /\ loop.signal = "sell"
                       /\ o.qty = Val(loop.qty_now)
                       /\ o.qty = Val(loop.held)]_vars

\* the loop has sold the 500 shares it read in this cycle
C12_Witness ==
    /\ loop.pc = "log"
    /\ loop.held = Some(500)
    /\ orders = <<[side |-> "sell", qty |-> 500]>>

(***************************************************************************)
(* The detector's claims are stated on the closes themselves: the sum of   *)
(* the last fast closes times slow against the sum of the last slow closes *)
(* times fast.                                                             *)
(***************************************************************************)
\* how the fast average stands to the slow average at position i of the
\* series: "above", "below", "equal", or "undefined" while the slow average
\* has no value there
SmaOrder(closes, fast, slow, i) ==
    IF i < slow \/ i < fast THEN "undefined"
    ELSE LET f == SumRange(closes, i - fast + 1, i) * slow
             s == SumRange(closes, i - slow + 1, i) * fast
         IN  IF f > s THEN "above" ELSE IF f < s THEN "below" ELSE "equal"

DetLen == Len(det.closes)

DetSignal == det.signals[Len(det.signals)]

DetPrev == SmaOrder(det.closes, det.fast, det.slow, DetLen - 1)

DetCurr == SmaOrder(det.closes, det.fast, det.slow, DetLen)

\* C13 (SpecDetector): on a series of at least slow+1 bars the detector
\* returns BUY exactly when the fast average was at or below the slow one
\* at the previous position and is above it at the latest, SELL exactly
\* when it was at or above and is below, and HOLD otherwise, with the
\* regime word given by the latest pair; equal latest averages give HOLD
\* with regime equal.
C13_CrossoverRule ==
    DetLen >= det.slow + 1
        => /\ DetSignal = "buy" <=> (DetPrev \in {"below", "equal"} /\ DetCurr = "above")
           /\ DetSignal = "sell" <=> (DetPrev \in {"above", "equal"} /\ DetCurr = "below")
           /\ DetSignal \in {"buy", "sell", "hold"}
           /\ DetSignal = "buy" => det.reason = "BUY crossed above"
           /\ DetSignal = "sell" => det.reason = "SELL crossed below"
           /\ DetSignal = "hold" => det.reason = "HOLD is " \o DetCurr \o "; no crossover"
           /\ DetCurr = "equal" => (DetSignal = "hold" /\ det.confidence = Some(<<0, 1>>))

\* a crossover that starts from equal averages: BUY
C13_Witness ==
    /\ DetLen >= det.slow + 1
    /\ DetPrev = "equal"
    /\ DetCurr = "above"
    /\ DetSignal = "buy"
    /\ det.reason = "BUY crossed above"

\* C14 (SpecDetector): on a series (one bar at least) shorter than the slow
\* window, sma_cross_signal returns None and describe_sma_signal returns
\* "Not enough data" with confidence 0.
C14_ShortSeriesUndetermined ==
    (DetLen >= 1 /\ DetLen < det.slow)
        => /\ DetSignal = "None"
           /\ det.reason = "Not enough data"
           /\ det.confidence = Some(<<0, 1>>)

\* a series of fast bars, fewer than slow: the fast average has a value, the
\* slow one has none, and the result is undetermined
C14_Witness ==
    /\ DetLen >= det.fast
    /\ DetLen = det.slow - 1
    /\ DetSignal = "None"
    /\ det.reason = "Not enough data"

\* C15 (SpecDetector): on a series of exactly slow bars (the slow average
\* has a value at the latest position only) the detector returns
\* UNDETERMINED with confidence 0.
C15_OneSlowValueUndetermined ==
    DetLen = det.slow
        => /\ DetSignal = "None"
           /\ det.confidence = Some(<<0, 1>>)

\* the order of the averages at position k of the series followed so far
DetOrderAt(k) == SmaOrder(det.closes, det.fast, det.slow, k)

\* positions i < j at which the detector returned the same signal sig
SameSignalAt(sig, i, j) ==
    /\ i < j
    /\ det.signals[i] = sig
    /\ det.signals[j] = sig

\* C16 as stated (SpecDetector): between any two positions at which the
\* detector returned BUY there is a position at which the fast average is
\* strictly below the slow one, and between any two SELLs one at which it
\* is strictly above.
C16_OncePerDirectionChange ==
    \A i, j \in 1..Len(det.signals) :
        /\ SameSignalAt("buy", i, j)
             => \E k \in (i + 1)..(j - 1) : DetOrderAt(k) = "below"
        /\ SameSignalAt("sell", i, j)
             => \E k \in (i + 1)..(j - 1) : DetOrderAt(k) = "above"

\* C16 amended (SpecDetector): between any two positions at which the
\* detector returned BUY there is a position at which the fast average is
\* below or equal to the slow one, and between any two SELLs one at which
\* it is above or equal; so the same BUY or SELL is never returned at two
\* consecutive positions.
C16_OncePerCrossOrTouch ==
    \A i, j \in 1..Len(det.signals) :
        /\ SameSignalAt("buy", i, j)
             => /\ j > i + 1
                /\ \E k \in (i + 1)..(j - 1) : DetOrderAt(k) \in {"below", "equal"}
        /\ SameSignalAt("sell", i, j)
             => /\ j > i + 1
                /\ \E k \in (i + 1)..(j - 1) : DetOrderAt(k) \in {"above", "equal"}

\* two BUYs with the averages equal in between and never below
C16_Witness ==
    \E i, j \in 1..Len(det.signals) :
        /\ SameSignalAt("buy", i, j)
        /\ \E k \in (i + 1)..(j - 1) : DetOrderAt(k) = "equal"
        /\ \A k \in (i + 1)..(j - 1) : DetOrderAt(k) # "below"

\* the trade-log row place_and_log writes for an order
RowOf(o) == [side |-> o.side, qty |-> o.qty]

\* C17 (Spec): execution and logging stay paired.  Every row of the trade
\* log belongs to a submitted order, and once the loop has left
\* place_and_log, in whatever way, every order it submitted has its row.
C17_ExecutionLogged ==
    /\ Len(tradeLog) <= Len(orders)
    /\ \A i \in 1..Len(tradeLog) :
         RowOf(tradeLog[i]) = RowOf(orders[i])
    /\ loop.pc # "log" => Len(tradeLog) = Len(orders)

\* C18 (Spec): the fixed interval.  A new cycle starts only from the wait
\* of lines 262-263, whatever the outcome of the cycle before it.
C18_WaitBetweenCycles ==
    [][(loop.pc # "start" /\ loop'.pc = "start") => loop.pc = "sleep"]_vars

\* the step is the load at the start of the loop's observe
LoopLoads == loop.pc = "start" /\ loop'.pc = "observe_save"

\* C19 (SpecInterrupted): the persisted risk state is never seen partially
\* written.  Once an observe has saved, every later load of the loop
\* returns a saved record, never the initial state: it carries the peak of
\* the equities observed and, once the latch was tripped, auto_paused.
C19_NoPartialWrite ==
    [][(LoopLoads /\ ~IsNone(lastObs))
        => /\ file # PartialFile
           /\ Val(loop'.state) # DefaultState
           /\ Val(loop'.state).peak_equity = Some(Val(lastObs).max_equity)
           /\ Val(lastObs).ever_paused => Val(loop'.state).auto_paused]_vars

\* the initial state as the spec gives it
AllAbsent ==
    [peak_equity |-> None, auto_paused |-> FALSE,
     last_equity |-> None, user_paused |-> FALSE]

\* C20 (SpecInterrupted): when the file is missing or does not parse, the
\* load returns {peak_equity absent, last_equity absent, auto_paused false,
\* user_paused false}, and the observe that follows returns the current
\* equity as the peak, drawdown 0 and no auto-pause, and persists them.
C20_LoadFallsBack ==
    [][/\ (LoopLoads /\ file \in {NoFile, PartialFile})
            => loop'.state = Some(AllAbsent)
       /\ (ObserveReturns /\ loop.state = Some(AllAbsent))
            => /\ loop'.peak = loop.acct_equity
               /\ loop'.dd_pct = Some(<<0, 1>>)
               /\ ~loop'.auto_paused
               /\ PersistedNext.peak_equity = loop.acct_equity
               /\ PersistedNext.last_equity = loop.acct_equity
               /\ ~PersistedNext.auto_paused]_vars

\* after an earlier observe of a higher equity, an observe started from a
\* file that did not parse: it loaded the initial state and returned the
\* current equity as the peak
C20_Witness ==
    /\ loop.pc = "signal"
    /\ ~IsNone(lastObs)
    /\ Val(lastObs).prior = DefaultState
    /\ Val(lastObs).max_equity > Val(lastObs).equity
    /\ loop.peak = Some(Val(lastObs).equity)
    /\ loop.dd_pct = Some(<<0, 1>>)

\* the step is the save of a Start or a Stop press
StartStopSaves == dash.pc = "start_stop" /\ dash'.pc = "account"

\* the step is the save of clear_auto_pause() or of the Clear Auto-Pause button
ClearSaves ==
    \/ oper.pc = "save" /\ oper'.pc = "idle"
    \/ dash.pc = "clear_save" /\ dash'.pc = "idle"

SaveFails == loop.pc = "observe_save" /\ loop'.pc = "sleep"

\* C22 (SpecSaveFails), as claimed: when the save inside observe fails, the
\* loop gets an error, the persisted state is the one the call loaded, no
\* order is submitted in that cycle, and the loop goes on to its next cycle.
C22_SaveFailureKeepsState ==
    [][/\ SaveFails
            => /\ loop'.outcome = "Exception"
               /\ PersistedNext = Val(loop.state)
               /\ orders' = <<>>
       /\ (loop.pc = "sleep" /\ loop.outcome = "Exception")
            => ~Submits /\ loop'.pc = "start"]_vars

\* the dashboard has computed a signal for the series as it is now
DashComputed ==
    /\ ~IsNone(det.latest)
    /\ Val(det.latest).signal # "IndexError"

\* C23 (SpecDashboardSignal), as claimed: no signal is computed, by the loop
\* or by the dashboard, with fast < 2 or slow <= fast, and the drawdown
\* threshold of observe is in (0, 1].
C23_ValidatedAtStartup ==
    /\ DashComputed => det.fast >= 2 /\ det.slow > det.fast
    /\ FAST >= 2 /\ SLOW > FAST
    /\ FracLt(<<0, 1>>, MAX_DD_PCT) /\ FracGeq(<<1, 1>>, MAX_DD_PCT)

\* the loop's observe is returning, its previous observe had persisted
\* auto_paused = true, and the record it loaded has the flag reset: a
\* clear_auto_pause() ran in between
ObserveAfterClear ==
    /\ ObserveReturns
    /\ ~IsNone(lastObs)
    /\ Val(lastObs).file[1].auto_paused
    /\ ~Val(loop.state).auto_paused

\* the equity e is at or below (1 - MAX_DD_PCT) times the peak
AtOrBelowThreshold(e, peak) ==
    e * MAX_DD_PCT[2] <= (MAX_DD_PCT[2] - MAX_DD_PCT[1]) * peak

\* C24 (SpecLoopAndClear): the clear resets the flag and not the peak.  The
\* observe(e) after a clear_auto_pause() finds the peak the previous observe
\* recorded, and returns and persists auto_paused = true exactly when e is
\* at or below (1 - MAX_DD_PCT) times that peak.
C24_ClearKeepsPeak ==
    [][ObserveAfterClear
        => /\ Val(loop.state).peak_equity = Some(Val(lastObs).peak)
           /\ loop'.auto_paused
                <=> AtOrBelowThreshold(Val(loop.acct_equity), Val(lastObs).peak)
           /\ PersistedNext.auto_paused = loop'.auto_paused]_vars

\* the latch tripped at equity 0 under the peak 100 and was cleared; the
\* next observe, at 95, set it again
C24_Witness ==
    /\ loop.pc = "signal"
    /\ ~IsNone(lastObs)
    /\ Val(lastObs).prior.peak_equity = Some(100)
    /\ Val(lastObs).prior.last_equity = Some(0)
    /\ ~Val(lastObs).prior.auto_paused
    /\ Val(lastObs).equity = 95
    /\ loop.auto_paused
    /\ Persisted.auto_paused

\* the step submits a buy order
SubmitsBuy == Submits /\ orders'[Len(orders')].side = "buy"

\* C25 (SpecLoop), as claimed: the loop submits a buy order only in a cycle
\* in which the position the brokerage holds for the instrument is <= 0.
C25_BuyOnlyWhenNotLong ==
    [][SubmitsBuy => Val(loop.held) <= 0]_vars

\* C26 (Spec): in every persisted risk state that has both peak_equity and
\* last_equity, peak_equity >= last_equity, under any interleaving of the
\* loop's observe, the dashboard's Start/Stop, refresh and clear, and
\* clear_auto_pause().
C26_PeakAtLeastLast ==
    (file # NoFile /\ ~IsNone(Persisted.peak_equity)
                   /\ ~IsNone(Persisted.last_equity))
        => Val(Persisted.peak_equity) >= Val(Persisted.last_equity)

\* the dashboard saved the equity 95 under the peak 100 while the loop was
\* between the load and the save of an observe of a higher equity, with a
\* record loaded before the dashboard's save
C26_Witness ==
    /\ loop.pc = "observe_save"
    /\ dash.pc = "idle"
    /\ Val(loop.state) # Persisted
    /\ Val(loop.acct_equity) = 98
    /\ Persisted.peak_equity = Some(100)
    /\ Persisted.last_equity = Some(95)

\* what a reason starts with: "BUY", "SELL", "HOLD", or the whole reason
ReasonKind(reason) ==
    IF reason = "BUY crossed above" THEN "BUY"
    ELSE IF reason = "SELL crossed below" THEN "SELL"
    ELSE IF reason \in {"HOLD is above; no crossover",
                        "HOLD is below; no crossover",
                        "HOLD is equal; no crossover"} THEN "HOLD"
    ELSE reason

\* C27 (SpecDashboardSignal): on every series and for every pair of
\* windows, sma_cross_signal returns buy exactly when the reason of
\* describe_sma_signal starts with BUY, sell exactly when it starts with
\* SELL, hold exactly when it starts with HOLD and None exactly when it is
\* "Not enough data"; latest_signal_reason, computed by the dashboard from
\* the same series and windows, returns buy exactly when sma_cross_signal
\* does, and sell likewise.
C27_SignalAndReasonAgree ==
    det.signals # <<>>
        => /\ DetSignal = "buy" <=> ReasonKind(det.reason) = "BUY"
           /\ DetSignal = "sell" <=> ReasonKind(det.reason) = "SELL"
           /\ DetSignal = "hold" <=> ReasonKind(det.reason) = "HOLD"
           /\ DetSignal = "None" <=> det.reason = "Not enough data"
           /\ ~IsNone(det.latest)
                => /\ Val(det.latest).signal = "buy" <=> DetSignal = "buy"
                   /\ Val(det.latest).signal = "sell" <=> DetSignal = "sell"

\* with the fast window longer than the slow one, the loop's pair and the
\* dashboard's function all report a sell at the latest bar
C27_Witness ==
    /\ det.fast > det.slow
    /\ det.signals # <<>>
    /\ DetSignal = "sell"
    /\ ReasonKind(det.reason) = "SELL"
    /\ ~IsNone(det.latest)
    /\ Val(det.latest).signal = "sell"

\* the orders the live loop places over the bars the detector has seen
LiveOrders == LiveFrom(det.signals, 1, 0)

\* C28 (SpecBacktest), as claimed: backtest_strategy records a BUY or a SELL
\* at exactly the bars at which the live loop, started flat and filled in
\* full, places that order; its first record, made while the simulated
\* position is flat, is not a SELL.
C28_BacktestFollowsLivePolicy ==
    ~IsNone(det.backtest)
        => /\ Val(det.backtest) = LiveOrders
           /\ Val(det.backtest) # <<>> => Val(det.backtest)[1].signal # "SELL"

=============================================================================
